---- MODULE Spec2Model ----
(***************************************************************************)
(* Server instances of mitmproxy/proxy/mode_servers.py: the lifecycle of   *)
(* AsyncioServerInstance (start / stop / is_running / listen_addrs) and    *)
(* the datagram demultiplexing of UdpServerInstance.                       *)
(*                                                                         *)
(* Coroutines are cut at their await points: one action runs a coroutine   *)
(* from one suspension point to the next, as the asyncio event loop does.  *)
(* Python's None is modelled by a record of the same shape as the values   *)
(* it stands in for, and Optional[...] mode fields by a sequence of length *)
(* zero or one.  Strings that the code formats are sequences of tokens.    *)
(***************************************************************************)
EXTENDS Integers, Sequences, FiniteSets, TLC

(* ----------------------------- bounds ---------------------------------- *)
\* server objects that listen() may create in one behaviour
MaxServers == 2
\* sockets one server may bind (a host may expand to several addresses)
MaxSockets == 1
\* callers of start()/stop() whose calls may overlap in SpecConc
NumCallers == 2
\* longest datagram payload
MaxDatagramLen == 2
\* clients that connect over TCP
MaxClients == 1

Callers == 1..NumCallers

(* --------------------------- python values ----------------------------- *)
NoException == [type |-> "None", errno |-> 0, msg |-> <<>>, filename |-> "None"]
NoServer == [id |-> 0, port |-> 0, nsock |-> 0]
NoLog == [level |-> "none", text |-> <<>>, addrs |-> <<>>]

\* errno.EADDRINUSE
EADDRINUSE == 98
\* errnos of the other OS errors that bind and getsockname / close raise here
EACCES == 13
EBADF == 9

OSError(errno, msg, filename) ==
    [type |-> "OSError", errno |-> errno, msg |-> msg, filename |-> filename]

\* a non-OSError exception: no errno, no filename
Exception(name) ==
    [type |-> name, errno |-> 0, msg |-> <<name>>, filename |-> "None"]

AssertionError == Exception("AssertionError")

\* str(e): "[Errno N] strerror" for an OSError, the message otherwise
Str(e) ==
    IF e.type = "OSError"
    THEN <<"[Errno", ToString(e.errno), "]">> \o e.msg
    ELSE e.msg

(* ------------------------------- modes --------------------------------- *)
Mode(type, data, host, port, full_spec) ==
    [type |-> type, data |-> data, custom_listen_host |-> host,
     custom_listen_port |-> port, full_spec |-> full_spec]

\* mode strings  KIND[:DATA][@[HOST:]PORT]  as parsed records
Modes ==
    { Mode("regular", "", <<>>, <<>>, "regular"),
      Mode("regular", "", <<>>, <<0>>, "regular@0"),
      Mode("regular", "", <<"127.0.0.1">>, <<8081>>, "regular@127.0.0.1:8081"),
      Mode("transparent", "", <<>>, <<>>, "transparent"),
      Mode("dns", "", <<>>, <<>>, "dns"),
      Mode("dns", "transparent", <<>>, <<0>>, "dns:transparent@0") }

\* udp:<inner> mode strings; data is the inner mode string
UdpModes ==
    { Mode("udp", "regular", <<>>, <<>>, "udp:regular"),
      Mode("udp", "transparent", <<>>, <<>>, "udp:transparent") }

\* mode.inner_mode of a udp mode
inner_mode(m) == CHOOSE i \in Modes : i.full_spec = m.data

\* ctx.options.listen_host / ctx.options.listen_port
options_listen_host == ""
options_listen_port == <<>>

default_port(m) == IF m.type = "dns" THEN 53 ELSE 8080

listen_host(m, default) ==
    IF m.custom_listen_host # <<>> THEN m.custom_listen_host[1] ELSE default

listen_port(m, default) ==
    IF m.custom_listen_port # <<>> THEN m.custom_listen_port[1]
    ELSE IF default # <<>> THEN default[1]
    ELSE default_port(m)

log_desc(m) ==
    IF m.type = "dns" THEN "DNS server"
    ELSE IF m.type = "transparent" THEN "Transparent proxy"
    ELSE "HTTP(S) proxy"

\* ServerInstance.make called with the positional arguments args: it binds
\* (mode, manager) and calls the class registered for mode.type with them;
\* UdpInstance.__init__ in turn calls ServerInstance.make(mode.inner_mode).
\* A call with another number of arguments raises TypeError.
RECURSIVE make(_)
make(args) ==
    IF Len(args) # 2
    THEN [exc |-> Exception("TypeError"), mode |-> args[1]]
    ELSE LET m == args[1]
         IN  IF m.type = "udp"
             THEN LET inner_server == make(<<inner_mode(m)>>)
                  IN  IF inner_server.exc # NoException
                      THEN [exc |-> inner_server.exc, mode |-> m]
                      ELSE [exc |-> NoException, mode |-> inner_mode(m)]
             ELSE [exc |-> NoException, mode |-> m]

(* ------------------------------- state --------------------------------- *)
VARIABLES
    mode,            \* self.mode
    _server,         \* self._server
    _listen_addrs,   \* self._listen_addrs
    last_exception,  \* self.last_exception
    pc,              \* per caller: where its start()/stop() coroutine stands
    loc,             \* per caller: the locals of its coroutine
    ret,             \* per caller: how its latest call ended
    open,            \* server objects whose sockets are bound
    closed,          \* server objects on which close() has been called
    nextId,          \* identity of the next server object
    log,             \* the latest ctx.log entry
    state,           \* lifecycle state as the calls' outcomes determine it
    connections,     \* self.manager.connections
    tasks,           \* connection tasks created and not yet run
    cb,              \* how the latest callback of the event loop ended
    made,            \* what ServerInstance.make(mode, manager) gave
    platform         \* platform.original_addr: a lookup function, or None

udpvars == <<connections, tasks, cb, made, platform>>

vars == <<mode, _server, _listen_addrs, last_exception, pc, loc, ret,
          open, closed, nextId, log, state, connections, tasks, cb,
          made, platform>>

is_running == _server # NoServer

listen_addrs == _listen_addrs

NoHandler ==
    [reader |-> <<>>, client_transport_protocol |-> "tcp",
     CONNECTION_TIMEOUT |-> 0, server_address |-> <<>>,
     server_transport_protocol |-> "tcp", layer |-> "None",
     can_timeout |-> TRUE, hook |-> "none", hook_data |-> "None"]

NoLocals == [host |-> "", port |-> 0, server |-> NoServer, listen_addrs |-> <<>>]
NoCall == [op |-> "none", status |-> "none", exc |-> NoException]

\* the state after ServerInstance.make(mode, manager): an instance with
\* the fields of the class bodies and of __init__, or no instance at all
\* when make raised
Init ==
    /\ mode \in Modes \cup UdpModes
    /\ made = make(<<mode, "manager">>)
    /\ platform \in IF mode.type = "transparent"
                    THEN {"original_addr", "None"}
                    ELSE {"original_addr"}
    /\ _server = NoServer
    /\ _listen_addrs = <<>>
    /\ last_exception = NoException
    /\ pc = [t \in Callers |->
               IF made.exc = NoException THEN "idle" ELSE "no instance"]
    /\ loc = [t \in Callers |-> NoLocals]
    /\ ret = [t \in Callers |-> NoCall]
    /\ open = {}
    /\ closed = {}
    /\ nextId = 1
    /\ log = NoLog
    /\ state = "Stopped"
    /\ connections = [i \in {} |-> NoHandler]
    /\ tasks = {}
    /\ cb = NoCall

(* ------------------------------ start() -------------------------------- *)
Returned(op) == [op |-> op, status |-> "returned", exc |-> NoException]
Raised(op, e) == [op |-> op, status |-> "raised", exc |-> e]
Pending(op) == [op |-> op, status |-> "pending", exc |-> NoException]

\* start() without its assert: every call goes on to listen()
start_unchecked(t) ==
    /\ pc[t] = "idle"
    /\ pc' = [pc EXCEPT ![t] = "listen"]
    /\ loc' = [loc EXCEPT ![t] =
                 [NoLocals EXCEPT
                    !.host = listen_host(mode, options_listen_host),
                    !.port = listen_port(mode, options_listen_port)]]
    /\ ret' = [ret EXCEPT ![t] = Pending("start")]
    /\ state' = "Starting"
    /\ UNCHANGED <<mode, _server, _listen_addrs, last_exception,
                   open, closed, nextId, log, udpvars>>

\* start() up to its await: the assert, host and port, the call of listen()
start(t) ==
    /\ pc[t] = "idle"
    /\ IF _server # NoServer
       THEN /\ ret' = [ret EXCEPT ![t] = Raised("start", AssertionError)]
            /\ UNCHANGED <<pc, loc, state>>
       ELSE /\ pc' = [pc EXCEPT ![t] = "listen"]
            /\ loc' = [loc EXCEPT ![t] =
                         [NoLocals EXCEPT
                            !.host = listen_host(mode, options_listen_host),
                            !.port = listen_port(mode, options_listen_port)]]
            /\ ret' = [ret EXCEPT ![t] = Pending("start")]
            /\ state' = "Starting"
    /\ UNCHANGED <<mode, _server, _listen_addrs, last_exception,
                   open, closed, nextId, log, udpvars>>

\* the port a socket bound to `port` reports: an ephemeral one for port 0
BoundPort(port, id) == IF port = 0 THEN 49152 + id ELSE port

\* the outcomes of listen(host, port): a new server with its sockets bound,
\* an OSError from bind, or another exception
listen(host, port) ==
    { [exc |-> NoException,
       server |-> [id |-> nextId, port |-> BoundPort(port, nextId), nsock |-> n]]
        : n \in IF nextId <= MaxServers
                   /\ \A s \in open : s.port # BoundPort(port, nextId)
                THEN (IF host = "" THEN 1..MaxSockets ELSE {1})
                ELSE {} }
    \cup { [exc |-> OSError(e, <<"strerror", ToString(e)>>, "None"),
            server |-> NoServer]
            : e \in IF port = 0 THEN {EACCES} ELSE {EADDRINUSE, EACCES} }
    \cup { [exc |-> Exception("OverflowError"), server |-> NoServer] }

\* s.getsockname() for s in server.sockets: the addresses, or an exception
getsockname(server, host) ==
    { [exc |-> NoException,
       addrs |-> [i \in 1..server.nsock |->
                    [host |-> host, port |-> server.port, sock |-> i]]] }
    \cup { [exc |-> OSError(EBADF, <<"strerror", ToString(EBADF)>>, "None"),
            addrs |-> <<>>] }

\* the message with the suggestion added for every address-in-use error
message_any_port(e, host, port) ==
    <<log_desc(mode), "failed to listen on",
      (IF host = "" THEN "*" ELSE host), ":", ToString(port), "with">>
    \o Str(e)
    \o (IF e.errno = EADDRINUSE
        THEN <<"Try specifying a different port by using --mode",
               mode.full_spec, "@", ToString(port + 1)>>
        ELSE <<>>)

\* the message start() builds in `except OSError`
message(e, host, port) ==
    <<log_desc(mode), "failed to listen on",
      (IF host = "" THEN "*" ELSE host), ":", ToString(port), "with">>
    \o Str(e)
    \o (IF e.errno = EADDRINUSE /\ mode.custom_listen_port = <<>>
        THEN <<"Try specifying a different port by using --mode",
               mode.full_spec, "@", ToString(port + 1)>>
        ELSE <<>>)

\* every except clause re-raising the exception it caught
start_reraises(e, host, port) == e

\* what the except clauses of start() raise for the exception e
start_raises(e, host, port) ==
    IF e.type = "OSError"
    THEN IF e.errno = EADDRINUSE /\ mode.custom_listen_port = <<>>
            /\ mode.custom_listen_host # <<>>
         THEN AssertionError
         ELSE OSError(e.errno, message(e, host, port), e.filename)
    ELSE e

\* start() from the completion of listen() to its end
listen_done(t) ==
    /\ pc[t] = "listen"
    /\ \E l \in listen(loc[t].host, loc[t].port) :
         IF l.exc # NoException
         THEN /\ last_exception' = l.exc
              /\ ret' = [ret EXCEPT ![t] =
                    Raised("start", start_raises(l.exc, loc[t].host, loc[t].port))]
              /\ state' = "Failed"
              /\ UNCHANGED <<_server, _listen_addrs, open, nextId, log>>
         ELSE /\ _server' = l.server
              /\ open' = open \cup {l.server}
              /\ nextId' = nextId + 1
              /\ \E g \in getsockname(l.server, loc[t].host) :
                   IF g.exc # NoException
                   THEN /\ last_exception' = g.exc
                        /\ ret' = [ret EXCEPT ![t] =
                              Raised("start",
                                     start_raises(g.exc, loc[t].host, loc[t].port))]
                        /\ state' = "Failed"
                        /\ UNCHANGED <<_listen_addrs, log>>
                   ELSE /\ _listen_addrs' = g.addrs
                        /\ last_exception' = NoException
                        /\ log' = [level |-> "info",
                                   text |-> <<log_desc(mode), "listening at">>,
                                   addrs |-> g.addrs]
                        /\ ret' = [ret EXCEPT ![t] = Returned("start")]
                        /\ state' = "Running"
    /\ pc' = [pc EXCEPT ![t] = "idle"]
    /\ loc' = [loc EXCEPT ![t] = NoLocals]
    /\ UNCHANGED <<mode, closed, udpvars>>

(* ------------------------------- stop() -------------------------------- *)
\* the outcomes of server.close(): done, or an exception with the sockets
\* closed or not
close(server) ==
    { [exc |-> NoException, open |-> open \ {server}] }
    \cup { [exc |-> OSError(EBADF, <<"strerror", ToString(EBADF)>>, "None"), open |-> o]
            : o \in {open, open \ {server}} }

\* the outcomes of awaiting server.wait_closed()
wait_closed(server) ==
    { NoException, OSError(EBADF, <<"strerror", ToString(EBADF)>>, "None") }

\* stop() resetting _server and _listen_addrs only once close() succeeded
stop_reset_after_close(t) ==
    /\ pc[t] = "idle"
    /\ IF _server = NoServer
       THEN /\ ret' = [ret EXCEPT ![t] = Raised("stop", AssertionError)]
            /\ UNCHANGED <<_server, _listen_addrs, last_exception, pc, loc,
                           open, closed, state>>
       ELSE /\ closed' = closed \cup {_server}
            /\ \E c \in close(_server) :
                 /\ open' = c.open
                 /\ IF c.exc # NoException
                    THEN /\ last_exception' = c.exc
                         /\ ret' = [ret EXCEPT ![t] = Raised("stop", c.exc)]
                         /\ state' = "Stopped"
                         /\ UNCHANGED <<_server, _listen_addrs, pc, loc>>
                    ELSE /\ _server' = NoServer
                         /\ _listen_addrs' = <<>>
                         /\ pc' = [pc EXCEPT ![t] = "wait_closed"]
                         /\ loc' = [loc EXCEPT ![t] =
                                      [NoLocals EXCEPT
                                         !.server = _server,
                                         !.listen_addrs = _listen_addrs]]
                         /\ ret' = [ret EXCEPT ![t] = Pending("stop")]
                         /\ state' = "Stopping"
                         /\ UNCHANGED last_exception
    /\ UNCHANGED <<mode, nextId, log, udpvars>>

\* stop() up to its await: the assert, the reset of the fields, close()
stop(t) ==
    /\ pc[t] = "idle"
    /\ IF _server = NoServer
       THEN /\ ret' = [ret EXCEPT ![t] = Raised("stop", AssertionError)]
            /\ UNCHANGED <<_server, _listen_addrs, last_exception, pc, loc,
                           open, closed, state>>
       ELSE /\ _server' = NoServer
            /\ _listen_addrs' = <<>>
            /\ closed' = closed \cup {_server}
            /\ \E c \in close(_server) :
                 /\ open' = c.open
                 /\ IF c.exc # NoException
                    THEN /\ last_exception' = c.exc
                         /\ ret' = [ret EXCEPT ![t] = Raised("stop", c.exc)]
                         /\ state' = "Stopped"
                         /\ UNCHANGED <<pc, loc>>
                    ELSE /\ pc' = [pc EXCEPT ![t] = "wait_closed"]
                         /\ loc' = [loc EXCEPT ![t] =
                                      [NoLocals EXCEPT
                                         !.server = _server,
                                         !.listen_addrs = _listen_addrs]]
                         /\ ret' = [ret EXCEPT ![t] = Pending("stop")]
                         /\ state' = "Stopping"
                         /\ UNCHANGED last_exception
    /\ UNCHANGED <<mode, nextId, log, udpvars>>

\* stop() cancelling the connection tasks once the server is closed
wait_closed_done_cancelling(t) ==
    /\ pc[t] = "wait_closed"
    /\ \E e \in wait_closed(loc[t].server) :
         IF e # NoException
         THEN /\ last_exception' = e
              /\ ret' = [ret EXCEPT ![t] = Raised("stop", e)]
              /\ UNCHANGED log
         ELSE /\ last_exception' = NoException
              /\ log' = [level |-> "info",
                         text |-> <<"Stopped", log_desc(mode), "at">>,
                         addrs |-> loc[t].listen_addrs]
              /\ ret' = [ret EXCEPT ![t] = Returned("stop")]
    /\ state' = "Stopped"
    /\ pc' = [pc EXCEPT ![t] = "idle"]
    /\ loc' = [loc EXCEPT ![t] = NoLocals]
    /\ connections' = [i \in {} |-> NoHandler]
    /\ UNCHANGED <<mode, _server, _listen_addrs, open, closed, nextId,
                   tasks, cb, made, platform>>

\* stop() without the else clause that clears last_exception
wait_closed_done_keeps_exception(t) ==
    /\ pc[t] = "wait_closed"
    /\ \E e \in wait_closed(loc[t].server) :
         IF e # NoException
         THEN /\ last_exception' = e
              /\ ret' = [ret EXCEPT ![t] = Raised("stop", e)]
              /\ UNCHANGED log
         ELSE /\ UNCHANGED last_exception
              /\ log' = [level |-> "info",
                         text |-> <<"Stopped", log_desc(mode), "at">>,
                         addrs |-> loc[t].listen_addrs]
              /\ ret' = [ret EXCEPT ![t] = Returned("stop")]
    /\ state' = "Stopped"
    /\ pc' = [pc EXCEPT ![t] = "idle"]
    /\ loc' = [loc EXCEPT ![t] = NoLocals]
    /\ UNCHANGED <<mode, _server, _listen_addrs, open, closed, nextId, udpvars>>

\* stop() from the completion of wait_closed() to its end
wait_closed_done(t) ==
    /\ pc[t] = "wait_closed"
    /\ \E e \in wait_closed(loc[t].server) :
         IF e # NoException
         THEN /\ last_exception' = e
              /\ ret' = [ret EXCEPT ![t] = Raised("stop", e)]
              /\ UNCHANGED log
         ELSE /\ last_exception' = NoException
              /\ log' = [level |-> "info",
                         text |-> <<"Stopped", log_desc(mode), "at">>,
                         addrs |-> loc[t].listen_addrs]
              /\ ret' = [ret EXCEPT ![t] = Returned("stop")]
    /\ state' = "Stopped"
    /\ pc' = [pc EXCEPT ![t] = "idle"]
    /\ loc' = [loc EXCEPT ![t] = NoLocals]
    /\ UNCHANGED <<mode, _server, _listen_addrs, open, closed, nextId, udpvars>>

(* ------------------------- UDP demultiplexing -------------------------- *)
Bytes == {0, 1}
Datagrams == UNION { [1..n -> Bytes] : n \in 0..MaxDatagramLen }
Peers == {"peer1", "peer2"}
Locals == {"local1"}

NoId == [proto |-> "None", dns_id |-> 0, remote |-> "None", local |-> "None"]

\* the value of the expression self.is_transparent in a condition: the
\* property of AsyncioServerInstance and the class attribute of
\* TransparentInstance are booleans, DnsInstance defines a plain method, and
\* a bound method object is true
is_transparent(m) ==
    IF m.type = "dns" THEN TRUE ELSE m.type = "transparent"

\* DnsInstance.make_connection_id called with the positional arguments
\* args: the method binds (data, remote_addr, local_addr), and a call with
\* any other number of arguments raises TypeError before its body runs
make_connection_id(args) ==
    IF Len(args) # 3
    THEN [exc |-> Exception("TypeError"), id |-> NoId, log |-> log]
    ELSE LET data == args[1]
             remote_addr == args[2]
             local_addr == args[3]
         IN  IF Len(data) < 2
             THEN [exc |-> NoException, id |-> NoId,
                   log |-> [level |-> "info",
                            text |-> <<"Invalid DNS datagram received from",
                                       remote_addr>>,
                            addrs |-> <<>>]]
             ELSE [exc |-> NoException,
                   id |-> [proto |-> "udp",
                           dns_id |-> data[1] * 256 + data[2],
                           remote |-> remote_addr, local |-> local_addr],
                   log |-> log]

\* DnsInstance.make_top_layer: the context's server address and the layer
\* and the make_top_layer of the TCP instances, which only build the layer
make_top_layer(m, handler) ==
    IF m.type = "dns"
    THEN [handler EXCEPT
            !.server_address = <<(IF m.data = "" THEN "resolve-local" ELSE m.data),
                                 "53">>,
            !.layer = "DNSLayer"]
    ELSE IF m.type = "transparent"
    THEN [handler EXCEPT !.layer = "TransparentProxy"]
    ELSE [handler EXCEPT !.layer = "HttpProxy"]

\* the handler handle_udp_datagram builds on a miss, before it installs the
\* top layer
new_udp_handler(m, local_addr) ==
    LET h0 == [NoHandler EXCEPT
                 !.client_transport_protocol = "udp",
                 !.CONNECTION_TIMEOUT = 20]
        h1 == IF is_transparent(m)
              THEN [h0 EXCEPT !.server_address = <<local_addr>>]
              ELSE h0
    IN  [h1 EXCEPT !.server_transport_protocol = "udp"]

\* the callback of udp.start_server, run for each datagram the bound
\* socket receives
handle_udp_datagram(data, remote_addr, local_addr) ==
    /\ mode.type = "dns"
    /\ open # {}
    /\ LET c == make_connection_id(<<"transport", data, remote_addr, local_addr>>)
           connection_id == c.id
       IN  IF c.exc # NoException
           THEN /\ cb' = Raised("handle_udp_datagram", c.exc)
                /\ UNCHANGED <<connections, tasks, log>>
           ELSE IF connection_id = NoId
           THEN /\ cb' = Returned("handle_udp_datagram")
                /\ log' = c.log
                /\ UNCHANGED <<connections, tasks>>
           ELSE IF connection_id \notin DOMAIN connections
           THEN LET handler ==
                         make_top_layer(mode, new_udp_handler(mode, local_addr))
                IN  /\ connections' =
                         [i \in DOMAIN connections \cup {connection_id} |->
                            IF i = connection_id
                            THEN [handler EXCEPT
                                    !.reader = <<<<data, remote_addr>>>>]
                            ELSE connections[i]]
                    /\ tasks' = tasks \cup {connection_id}
                    /\ cb' = Returned("handle_udp_datagram")
                    /\ log' = c.log
           ELSE /\ connections' =
                     [connections EXCEPT
                        ![connection_id].reader = Append(@, <<data, remote_addr>>)]
                /\ cb' = Returned("handle_udp_datagram")
                /\ log' = c.log
                /\ UNCHANGED tasks
    /\ UNCHANGED <<mode, _server, _listen_addrs, last_exception, pc, loc, ret,
                   open, closed, nextId, state, made, platform>>

\* a datagram arrives on the bound socket
udp_datagram ==
    \E data \in Datagrams, remote_addr \in Peers, local_addr \in Locals :
        handle_udp_datagram(data, remote_addr, local_addr)

(* ------------------------- connection tasks ---------------------------- *)
\* manager.register_connection(id, handler) as a context manager: the entry
\* is inserted on entry and removed on exit
register_connection_enter(conns, id, handler) ==
    [i \in DOMAIN conns \cup {id} |-> IF i = id THEN handler ELSE conns[i]]

register_connection_exit(conns, id) ==
    [i \in DOMAIN conns \ {id} |-> conns[i]]

\* the outcomes of platform.original_addr(socket)
original_addr ==
    { [exc |-> NoException, addr |-> a] : a \in {"dst1", "dst2"} }
    \cup { [exc |-> Exception("RuntimeError"), addr |-> ""] }

\* the outcomes of awaiting handler.handle_client()
handle_client == { NoException, Exception("RuntimeError") }

TcpClients == { ToString(i) : i \in 1..MaxClients }
TcpTypes == {"regular", "transparent"}

TcpId(peername, sockname) ==
    [proto |-> "tcp", dns_id |-> 0, remote |-> peername, local |-> sockname]

\* handle_tcp_connection letting a failed lookup escape
handle_tcp_connection_unguarded(peername, sockname, lookup) ==
    /\ mode.type \in TcpTypes
    /\ open # {}
    /\ TcpId(peername, sockname) \notin DOMAIN connections
    /\ IF is_transparent(mode) /\ platform = "None"
       THEN /\ cb' = Raised("handle_tcp_connection", AssertionError)
            /\ UNCHANGED <<connections, log>>
       ELSE IF is_transparent(mode) /\ lookup.exc # NoException
       THEN /\ cb' = Raised("handle_tcp_connection", lookup.exc)
            /\ UNCHANGED <<connections, log>>
       ELSE LET h == IF is_transparent(mode)
                     THEN [NoHandler EXCEPT !.server_address = <<lookup.addr>>]
                     ELSE NoHandler
            IN  /\ connections' = register_connection_enter(
                       connections, TcpId(peername, sockname),
                       make_top_layer(mode, h))
                /\ UNCHANGED <<cb, log>>
    /\ UNCHANGED <<mode, _server, _listen_addrs, last_exception, pc, loc, ret,
                   open, closed, nextId, state, tasks, made, platform>>

\* the client_connected_cb of asyncio.start_server up to its await: the
\* handler, the transparent lookup (whose outcome is lookup), the top layer,
\* the registration, the call of handle_client()
handle_tcp_connection(peername, sockname, lookup) ==
    /\ mode.type \in TcpTypes
    /\ open # {}
    /\ TcpId(peername, sockname) \notin DOMAIN connections
    /\ IF is_transparent(mode) /\ platform = "None"
       THEN /\ cb' = Raised("handle_tcp_connection", AssertionError)
            /\ UNCHANGED <<connections, log>>
       ELSE LET h == IF is_transparent(mode) /\ lookup.exc = NoException
                     THEN [NoHandler EXCEPT !.server_address = <<lookup.addr>>]
                     ELSE NoHandler
            IN  /\ connections' = register_connection_enter(
                       connections, TcpId(peername, sockname),
                       make_top_layer(mode, h))
                /\ IF is_transparent(mode) /\ lookup.exc # NoException
                   THEN log' = [level |-> "error",
                                text |-> <<"Transparent mode failure:">>
                                         \o lookup.exc.msg,
                                addrs |-> <<>>]
                   ELSE UNCHANGED log
                /\ UNCHANGED cb
    /\ UNCHANGED <<mode, _server, _listen_addrs, last_exception, pc, loc, ret,
                   open, closed, nextId, state, tasks, made, platform>>

\* a client connects to the listening socket
tcp_connection ==
    \E peername \in TcpClients, sockname \in Locals, lookup \in original_addr :
        handle_tcp_connection(peername, sockname, lookup)

\* the with block leaving the entry in place when handle_client() raises
handle_client_done_leaky(id, e) ==
    /\ id \in DOMAIN connections
    /\ id \notin tasks
    /\ connections[id].hook = "none"
    /\ cb' = IF e = NoException THEN Returned("handle_client")
             ELSE Raised("handle_client", e)
    /\ connections' = IF e = NoException
                      THEN register_connection_exit(connections, id)
                      ELSE connections
    /\ UNCHANGED <<mode, _server, _listen_addrs, last_exception, pc, loc, ret,
                   open, closed, nextId, state, tasks, log, made, platform>>

\* the connection task from the completion of handle_client(), whose
\* outcome is e, to its end: the with block is left, by return or by
\* exception
handle_client_done(id, e) ==
    /\ id \in DOMAIN connections
    /\ id \notin tasks
    /\ connections[id].hook = "none"
    /\ cb' = IF e = NoException THEN Returned("handle_client")
             ELSE Raised("handle_client", e)
    /\ connections' = register_connection_exit(connections, id)
    /\ UNCHANGED <<mode, _server, _listen_addrs, last_exception, pc, loc, ret,
                   open, closed, nextId, state, tasks, log, made, platform>>

\* the task handle_udp_datagram creates, up to its await.  No behaviour
\* enables it: handle_udp_datagram raises before it creates a task, so tasks
\* stays empty and Next has no disjunct for it.
handle_udp_connection(connection_id) ==
    /\ connection_id \in tasks
    /\ tasks' = tasks \ {connection_id}
    /\ connections' = register_connection_enter(
           connections, connection_id, connections[connection_id])
    /\ UNCHANGED <<mode, _server, _listen_addrs, last_exception, pc, loc, ret,
                   open, closed, nextId, state, log, cb, made, platform>>

(* ------------------------------- hooks --------------------------------- *)
\* timeout_watchdog.disarm() as a context manager: the watchdog cannot time
\* out inside the block and can again once the block is left
disarm(h) == [h EXCEPT !.can_timeout = FALSE]
rearm(h) == [h EXCEPT !.can_timeout = TRUE]

\* hook.args() of the hooks the protocol engine raises: one argument, a
\* flow or something else, or several arguments
Hooks == { <<"flow">>, <<"other">>, <<"other", "other">> }

\* the outcomes of awaiting master.addons.handle_lifecycle(hook)
handle_lifecycle == { NoException, Exception("AddonError") }

OtherVarsOfHooks ==
    <<mode, _server, _listen_addrs, last_exception, pc, loc, ret,
      open, closed, nextId, state, tasks, made, platform>>

\* handle_hook up to its first await: the with block is entered, the
\* single argument unpacked, handle_lifecycle() called
handle_hook(id, hook) ==
    /\ id \in DOMAIN connections
    /\ id \notin tasks
    /\ connections[id].hook = "none"
    /\ LET h == disarm(connections[id])
       IN  IF Len(hook) # 1
           THEN /\ connections' = [connections EXCEPT ![id] = rearm(h)]
           ELSE /\ connections' =
                     [connections EXCEPT
                        ![id] = [h EXCEPT !.hook = "handle_lifecycle",
                                          !.hook_data = hook[1]]]
    /\ UNCHANGED <<log, cb>>
    /\ UNCHANGED OtherVarsOfHooks

\* the with block ending before the flow's resume signal is awaited
handle_lifecycle_done_early_rearm(id) ==
    /\ id \in DOMAIN connections
    /\ connections[id].hook = "handle_lifecycle"
    /\ LET h == connections[id]
           end == [h EXCEPT !.hook = "none", !.hook_data = "None"]
       IN  \E e \in handle_lifecycle :
             IF e # NoException
             THEN /\ connections' = [connections EXCEPT ![id] = rearm(end)]
             ELSE IF h.hook_data = "flow"
             THEN /\ connections' =
                       [connections EXCEPT
                          ![id] = rearm([h EXCEPT !.hook = "wait_for_resume"])]
             ELSE /\ connections' = [connections EXCEPT ![id] = rearm(end)]
    /\ UNCHANGED <<log, cb>>
    /\ UNCHANGED OtherVarsOfHooks

\* handle_hook from the completion of handle_lifecycle() to its next await
\* or its end
handle_lifecycle_done(id) ==
    /\ id \in DOMAIN connections
    /\ connections[id].hook = "handle_lifecycle"
    /\ LET h == connections[id]
           end == [h EXCEPT !.hook = "none", !.hook_data = "None"]
       IN  \E e \in handle_lifecycle :
             IF e # NoException
             THEN /\ connections' = [connections EXCEPT ![id] = rearm(end)]
             ELSE IF h.hook_data = "flow"
             THEN /\ connections' =
                       [connections EXCEPT
                          ![id] = [h EXCEPT !.hook = "wait_for_resume"]]
             ELSE /\ connections' = [connections EXCEPT ![id] = rearm(end)]
    /\ UNCHANGED <<log, cb>>
    /\ UNCHANGED OtherVarsOfHooks

\* handle_hook from the completion of data.wait_for_resume() to its end
wait_for_resume_done(id) ==
    /\ id \in DOMAIN connections
    /\ connections[id].hook = "wait_for_resume"
    /\ connections' =
         [connections EXCEPT
            ![id] = rearm([@ EXCEPT !.hook = "none", !.hook_data = "None"])]
    /\ UNCHANGED <<log, cb>>
    /\ UNCHANGED OtherVarsOfHooks

\* the idle watchdog of a handler times out, which it does only while it
\* can time out
watchdog_timeout(id) ==
    /\ id \in DOMAIN connections
    /\ connections[id].can_timeout
    /\ log' = [level |-> "info",
               text |-> <<"Closing connection due to inactivity">>,
               addrs |-> <<>>]
    /\ UNCHANGED <<connections, cb>>
    /\ UNCHANGED OtherVarsOfHooks

\* the steps of the connection tasks
connection_task ==
    \E id \in DOMAIN connections :
        \/ \E e \in handle_client : handle_client_done(id, e)
        \/ \E hook \in Hooks : handle_hook(id, hook)
        \/ handle_lifecycle_done(id)
        \/ wait_for_resume_done(id)
        \/ watchdog_timeout(id)

(* --------------------------- specifications ---------------------------- *)
\* one caller: every call is awaited before the next is made
Next ==
    \/ start(1)
    \/ listen_done(1)
    \/ stop(1)
    \/ wait_closed_done(1)
    \/ udp_datagram
    \/ tcp_connection
    \/ connection_task

Spec == Init /\ [][Next]_vars

\* several callers: calls overlap at the await points
NextConc ==
    \E t \in Callers :
        \/ start(t)
        \/ listen_done(t)
        \/ stop(t)
        \/ wait_closed_done(t)

SpecConc == Init /\ [][NextConc]_vars

(* ------------------------------ properties ----------------------------- *)
\* s has sub as a contiguous subsequence
Contains(s, sub) ==
    \E i \in 1..(Len(s) - Len(sub) + 1) : SubSeq(s, i, i + Len(sub) - 1) = sub

\* the latest call of the single caller was op and has ended
Ended(op) == ret[1].op = op /\ ret[1].status \in {"returned", "raised"}

\* the latest call was a start() that got past its assert and then failed
StartFailed ==
    /\ ret[1].op = "start"
    /\ ret[1].status = "raised"
    /\ ret[1].exc # AssertionError

\* the error start() caught was address-in-use and the mode pins no port
InUseNoCustomPort ==
    /\ last_exception.type = "OSError"
    /\ last_exception.errno = EADDRINUSE
    /\ mode.custom_listen_port = <<>>

\* C1: is_running is false before the first start(), true right after every
\* start() that returns without error, false after every stop() however it
\* ends, and true exactly when the lifecycle state is Running.
C1_IsRunningTracksState ==
    /\ ret[1].op = "none" => ~is_running
    /\ ret[1] = Returned("start") => is_running
    /\ Ended("stop") => ~is_running
    /\ is_running <=> (state = "Running")

\* C2: start() on a running instance raises the assertion error and changes
\* nothing: the server, the addresses, the bound sockets and last_exception
\* are what they were.
C2_DoubleStartRejected ==
    [][(start(1) /\ is_running) =>
         /\ ret'[1] = Raised("start", AssertionError)
         /\ is_running'
         /\ UNCHANGED <<_server, _listen_addrs, last_exception, open, nextId,
                        pc, state>>]_vars

C2_Witness ==
    /\ ret[1] = Raised("start", AssertionError)
    /\ state = "Running"
    /\ is_running
    /\ Len(listen_addrs) > 0

\* C3: stop() on an instance that is not Running (never started, stopped, or
\* after a failed start) raises the assertion error and changes nothing:
\* not running, no addresses, no close() attempted.
C3_StopWhenNotRunningRejected ==
    [][(stop(1) /\ state \in {"Stopped", "Failed"}) =>
         /\ ret'[1] = Raised("stop", AssertionError)
         /\ ~is_running'
         /\ listen_addrs' = <<>>
         /\ UNCHANGED <<_server, _listen_addrs, last_exception, open, closed>>]_vars

\* C4: after a start() that fails, from listen() or from resolving the
\* socket addresses, the instance is not running and has no addresses, and
\* the next start() gets past its assert.
C4_FailedStartLeavesStopped ==
    /\ [](StartFailed => (~is_running /\ listen_addrs = <<>>))
    /\ [][(start(1) /\ StartFailed) => ret'[1] = Pending("start")]_vars

\* C5: listen_addrs is non-empty exactly in the Running state, and holds an
\* address whenever is_running is true.
C5_AddrsIffRunning ==
    /\ (Len(listen_addrs) > 0) <=> (state = "Running")
    /\ is_running => Len(listen_addrs) > 0

\* C6: under every interleaving of start() and stop(), at most one server
\* that close() was not yet called on is bound, and it is the one the
\* instance holds in _server.
C6_AtMostOneSocket ==
    /\ Cardinality(open \ closed) <= 1
    /\ (open \ closed) \subseteq {_server}

\* C7: when close() or wait_closed() fails in stop(), the caller gets the
\* error, last_exception holds it, the instance is stopped with no
\* addresses, and the next start() gets past its assert.
C7_StopFailureStillStops ==
    /\ [][((stop(1) \/ wait_closed_done(1))
           /\ ret'[1].status = "raised" /\ ret'[1].exc # AssertionError) =>
            /\ ret'[1].op = "stop"
            /\ ret'[1].exc.type = "OSError"
            /\ last_exception' = ret'[1].exc
            /\ ~is_running'
            /\ listen_addrs' = <<>>
            /\ state' = "Stopped"]_vars
    /\ [][(start(1) /\ ret[1].op = "stop" /\ ret[1].status = "raised"
           /\ ret[1].exc # AssertionError) =>
            ret'[1] = Pending("start")]_vars

C7_Witness ==
    /\ ret[1].op = "stop"
    /\ ret[1].status = "raised"
    /\ ret[1].exc.type = "OSError"
    /\ last_exception = ret[1].exc
    /\ ~is_running
    /\ closed # {}

\* the suggestion "@<port+1>" for the port start() tried
PortSuggestion ==
    <<"@", ToString(listen_port(mode, options_listen_port) + 1)>>

\* C8: the message of a failed start() contains "@<port+1>" exactly when the
\* OS error is EADDRINUSE and the mode has no custom listen port.
C8_SuggestionIffInUseNoCustomPort ==
    StartFailed =>
        (Contains(ret[1].exc.msg, PortSuggestion) <=> InUseNoCustomPort)

C8_Witness ==
    /\ StartFailed
    /\ InUseNoCustomPort
    /\ Contains(ret[1].exc.msg, <<mode.full_spec>> \o PortSuggestion)

\* the bind failed with an OS error that is not address-in-use without a
\* custom port
OtherBindError ==
    /\ StartFailed
    /\ last_exception.type = "OSError"
    /\ ~InUseNoCustomPort

C10_OneHandlerPerTransactionId ==
    [][\A data \in Datagrams, remote_addr \in Peers, local_addr \in Locals :
         (handle_udp_datagram(data, remote_addr, local_addr) /\ Len(data) >= 2) =>
            LET id == [proto |-> "udp", dns_id |-> data[1] * 256 + data[2],
                       remote |-> remote_addr, local |-> local_addr]
            IN  /\ DOMAIN connections' = DOMAIN connections \cup {id}
                /\ id \in DOMAIN connections =>
                     /\ tasks' = tasks
                     /\ connections'[id].reader =
                          Append(connections[id].reader, <<data, remote_addr>>)
                /\ id \notin DOMAIN connections => tasks' = tasks \cup {id}]_vars

\* the id DNS mode gives a datagram of at least two bytes
DnsId(data, remote_addr, local_addr) ==
    [proto |-> "udp", dns_id |-> data[1] * 256 + data[2],
     remote |-> remote_addr, local |-> local_addr]

\* C11: in DNS mode a datagram shorter than 2 bytes is dropped: the callback
\* returns without an error, emits the info log and leaves
\* manager.connections, the readers and the tasks as they were.
C11_ShortDatagramDropped ==
    [][\A data \in Datagrams, remote_addr \in Peers, local_addr \in Locals :
         (handle_udp_datagram(data, remote_addr, local_addr) /\ Len(data) < 2) =>
            /\ cb' = Returned("handle_udp_datagram")
            /\ log' = [level |-> "info",
                       text |-> <<"Invalid DNS datagram received from",
                                  remote_addr>>,
                       addrs |-> <<>>]
            /\ UNCHANGED <<connections, tasks>>]_vars

\* C12: each datagram of a flow is put at the end of that flow's reader,
\* after the datagrams that arrived before it (the first one on an empty
\* reader), and the readers of the other flows are left alone.
C12_DatagramsInArrivalOrder ==
    [][\A data \in Datagrams, remote_addr \in Peers, local_addr \in Locals :
         (handle_udp_datagram(data, remote_addr, local_addr) /\ Len(data) >= 2) =>
            LET id == DnsId(data, remote_addr, local_addr)
                before == IF id \in DOMAIN connections
                          THEN connections[id].reader ELSE <<>>
            IN  /\ id \in DOMAIN connections'
                /\ connections'[id].reader = Append(before, <<data, remote_addr>>)
                /\ \A other \in DOMAIN connections \ {id} :
                     /\ other \in DOMAIN connections'
                     /\ connections'[other].reader = connections[other].reader]_vars

\* C13: when a connection task ends, handle_client() having returned or
\* raised, its id is no longer in manager.connections, and the other
\* entries are untouched.
C13_TerminatedTaskDeregistered ==
    [][\A id \in DOMAIN connections, e \in handle_client :
         handle_client_done(id, e) =>
            /\ id \notin DOMAIN connections'
            /\ \A other \in DOMAIN connections \ {id} :
                 /\ other \in DOMAIN connections'
                 /\ connections'[other] = connections[other]]_vars

C13_Witness ==
    /\ cb = Raised("handle_client", Exception("RuntimeError"))
    /\ DOMAIN connections = {}
    /\ mode.type \in TcpTypes

\* C14: in transparent TCP mode (the platform offering the lookup) the new
\* handler's server address is the lookup's result; when the lookup fails
\* an error is logged, nothing is raised, and the handler still gets its
\* top layer and is registered.  In the other TCP modes the lookup has no
\* part: no address, no log.
C14_TransparentAddress ==
    [][\A peername \in TcpClients, sockname \in Locals, lookup \in original_addr :
         (handle_tcp_connection(peername, sockname, lookup)
          /\ platform = "original_addr") =>
            LET id == TcpId(peername, sockname)
            IN  /\ id \in DOMAIN connections'
                /\ cb' = cb
                /\ connections'[id].hook = "none"
                /\ IF mode.type = "transparent"
                   THEN /\ connections'[id].layer = "TransparentProxy"
                        /\ IF lookup.exc = NoException
                           THEN /\ connections'[id].server_address = <<lookup.addr>>
                                /\ log' = log
                           ELSE /\ connections'[id].server_address = <<>>
                                /\ log'.level = "error"
                   ELSE /\ connections'[id].layer = "HttpProxy"
                        /\ connections'[id].server_address = <<>>
                        /\ log' = log]_vars

C14_Witness ==
    /\ mode.type = "transparent"
    /\ log.level = "error"
    /\ \E id \in DOMAIN connections :
         /\ connections[id].server_address = <<>>
         /\ connections[id].layer = "TransparentProxy"

\* C15: stop() leaves manager.connections and the connection tasks as they
\* are, at its call and at its completion; an entry leaves the mapping only
\* when its own handle_client() ends.
C15_StopKeepsConnections ==
    /\ [][(stop(1) \/ wait_closed_done(1)) =>
            UNCHANGED <<connections, tasks>>]_vars
    /\ [][\A id \in DOMAIN connections :
            id \notin DOMAIN connections' =>
               \E e \in handle_client : handle_client_done(id, e)]_vars

C15_Witness ==
    /\ ret[1] = Returned("stop")
    /\ ~is_running
    /\ open = {}
    /\ \E id \in DOMAIN connections : connections[id].hook = "handle_lifecycle"

\* C16: make() constructs a listener for a udp:<inner> mode, which reuses
\* the inner mode of its inner listener.
C16_UdpInstanceConstructed ==
    mode.type = "udp" =>
        /\ made.exc = NoException
        /\ made.mode = inner_mode(mode)
        /\ pc[1] # "no instance"

\* C17: a miss puts the handler in manager.connections together with the
\* creation of its task, and a datagram whose id has a task that has not
\* run yet is a hit: it goes to that handler's reader and makes no entry
\* and no task.
C17_PreInsertedBeforeTask ==
    /\ [](tasks \subseteq DOMAIN connections)
    /\ [][\A data \in Datagrams, remote_addr \in Peers, local_addr \in Locals :
            (handle_udp_datagram(data, remote_addr, local_addr)
             /\ Len(data) >= 2) =>
               LET id == DnsId(data, remote_addr, local_addr)
               IN  /\ id \notin DOMAIN connections =>
                        (id \in DOMAIN connections' /\ id \in tasks')
                   /\ id \in tasks =>
                        /\ tasks' = tasks
                        /\ DOMAIN connections' = DOMAIN connections
                        /\ connections'[id].reader =
                             Append(connections[id].reader,
                                    <<data, remote_addr>>)]_vars

\* C18: after a start() or stop() that returned, last_exception is empty;
\* after one that failed with a bind or drain error it holds that error
\* (the error start() raises is built from it).
C18_LastExceptionTracksOutcome ==
    /\ ret[1].status = "returned" => last_exception = NoException
    /\ (ret[1].status = "raised" /\ ret[1].exc # AssertionError) =>
          /\ last_exception # NoException
          /\ last_exception.type = ret[1].exc.type
          /\ last_exception.errno = ret[1].exc.errno
          /\ IF ret[1].op = "start" /\ last_exception.type = "OSError"
             THEN Contains(ret[1].exc.msg, Str(last_exception))
             ELSE last_exception = ret[1].exc

\* a stop() that returned after an earlier stop() had failed in close()
C18_Witness ==
    /\ ret[1] = Returned("stop")
    /\ last_exception = NoException
    /\ open # {}

\* C19: the watchdog of a handler cannot time out exactly while one of its
\* hooks is in progress, from the call of handle_lifecycle() to the end of
\* the wait for a flow's resume signal, and it never times out then.
C19_WatchdogDisarmedDuringHook ==
    /\ [](\A id \in DOMAIN connections :
            connections[id].can_timeout <=> connections[id].hook = "none")
    /\ [][\A id \in DOMAIN connections :
            /\ watchdog_timeout(id) => connections[id].hook = "none"
            /\ (handle_lifecycle_done(id)
                /\ connections[id].hook_data = "flow"
                /\ connections'[id].hook # "none") =>
                  (connections'[id].hook = "wait_for_resume"
                   /\ ~connections'[id].can_timeout)]_vars

C19_Witness ==
    \E id \in DOMAIN connections :
        /\ connections[id].hook = "wait_for_resume"
        /\ connections[id].hook_data = "flow"
        /\ ~connections[id].can_timeout

\* C20: on a miss the UDP listener creates the handler, and the handler it
\* builds before installing the top layer has the datagram's local address
\* as its server address exactly when the mode is transparent.
C20_LocalAddressOnlyIfTransparent ==
    [][\A data \in Datagrams, remote_addr \in Peers, local_addr \in Locals :
         (handle_udp_datagram(data, remote_addr, local_addr)
          /\ Len(data) >= 2
          /\ DnsId(data, remote_addr, local_addr) \notin DOMAIN connections) =>
            /\ DnsId(data, remote_addr, local_addr) \in DOMAIN connections'
            /\ (new_udp_handler(mode, local_addr).server_address = <<local_addr>>)
                 <=> (mode.data = "transparent")]_vars

\* the test at line 293 selects the local address only for a transparent mode
C20_TransparentTest ==
    mode.type = "dns" =>
        \A local_addr \in Locals :
            (new_udp_handler(mode, local_addr).server_address = <<local_addr>>)
              <=> (mode.data = "transparent")

\* no datagram ever leaves a connection task to run
NoUdpTask == tasks = {}

TypeOK ==
    /\ mode \in Modes \cup UdpModes
    /\ pc \in [Callers -> {"idle", "listen", "wait_closed", "no instance"}]
    /\ nextId \in 1..(MaxServers + 1)
    /\ Cardinality(open) <= MaxServers
====
